---------------------------- MODULE Spec2Model ----------------------------
(***************************************************************************)
(* Model of the browser pool of shortvideo-downloader                     *)
(* (src/src/userInfoMonitor.js, class BrowserPool) and of the callers     *)
(* that borrow from it.                                                   *)
(*                                                                         *)
(* Node runs the pool on one thread: every action below is the code that  *)
(* runs between two suspension points (an await or a timer).  A caller is *)
(* one request handler; it calls getBrowser, is suspended in engine       *)
(* startup or in the wait queue, holds a handle, and calls releaseBrowser *)
(* in its finally block.                                                  *)
(*                                                                         *)
(* Time is counted in units of the queue-expiry window (60 000 ms).       *)
(* Of the constructor's options, maxQueueSize and browserTimeout are set  *)
(* by Init and maxPoolSize is fixed below.  Spec is the pool under        *)
(* NumCallers request handlers and NumSweeps overlapping sweeps;          *)
(* SpecBurst is the pool under a burst of BurstCallers requests that all  *)
(* arrive before the first tick of the clock.  SpecTwice has callers that *)
(* release twice.  SpecTransfer has callers that run downloadFile and     *)
(* SpecResolver callers that run getVideoInfo with waitForVerification    *)
(* (src/src/index.js, class DouyinDownloader); the page a resolver step   *)
(* looks at belongs to the remote site, so each such step observes any    *)
(* page.  SpecSave has callers that call saveCookies while they hold a    *)
(* handle.  SpecLive is the pool with the fairness of its timers, for the *)
(* progress of the callers suspended in the queue.                        *)
(* ev records the last operation of the pool and what it returned, so     *)
(* that a rejected call, which changes nothing else, is a step too.       *)
(***************************************************************************)
EXTENDS Integers, Sequences, FiniteSets, TLC

\* ------------------------------------------ bounds and configuration
NumCallers == 3
maxPoolSize == 1
MaxQueueSize == 2
DefaultBrowserTimeout == 1
MaxIds == 2
MaxTime == 2
NumSweeps == 1
BurstCallers == 5
BurstSweeps == 2
BurstQueueSize == 3
NumTransfers == 3
MaxRetries == 3
NumResolvers == 2
NumMarkers == 3
VerifyBudget == 2
MaxSlide == 2
MaxJitter == 1

\* const queueTimeout = 60000: one unit of model time
queueTimeout == 1

\* the request handlers and the cleanup() invocations that act under Spec
Callers == 1..NumCallers
Sweeps == 1..NumSweeps
\* every request handler and every cleanup() invocation of the model
AllCallers == 1..BurstCallers
AllSweeps == 1..BurstSweeps
Ids == 1..MaxIds
NoId == 0

VARIABLES
    maxQueueSize, \* this.maxQueueSize, set by the constructor
    browserTimeout, \* this.browserTimeout, set by the constructor
    pool,        \* this.pool: sequence of [id, inUse, lastUsed]
    queue,       \* this.queue: sequence of [caller, timestamp]
    pc,          \* per caller: "idle", "creating", "queued", "holding", "released"
    held,        \* per caller: the id of the handle getBrowser gave it, or NoId
    settled,     \* per caller: resolve/reject calls made on its queue entry
    nextId,      \* the next fresh handle id
    closeCalls,  \* per handle id: calls of browser.close() made so far
    sweep,       \* per cleanup() invocation: its locals while it runs
    shut,        \* closeAll(): its phase and loop position
    clock,       \* Date.now()
    ev,          \* the last pool operation and its outcome
    maxRetries,  \* this.maxRetries of DouyinDownloader, set by its constructor
    transfer,    \* per caller: the locals of its downloadFile call, if it runs one
    file,        \* the file at targetPath: "absent", "partial" or "complete"
    verif,       \* per caller: the locals of its getVideoInfo call and of the
                 \* waitForVerification call it makes
    seen         \* what the last step observed of its page, if it observed it

vars == <<maxQueueSize, browserTimeout, pool, queue, pc, held, settled, nextId, closeCalls, sweep,
          shut, clock, ev, maxRetries, transfer, file, verif, seen>>

\* err: the step caught an error of browser.close() (the catch blocks of lines 639 and 671)
EventErr(op, h, res, err) == [op |-> op, h |-> h, res |-> res, err |-> err]
Event(op, h, res) == EventErr(op, h, res, FALSE)

\* the locals of cleanup(): now, toRemove, the loop index i and `instance` (its id)
SweepIdle == [phase |-> "idle", now |-> 0, toRemove |-> <<>>, i |-> 0, instance |-> NoId]

\* ------------------------------------------------------------- helpers

\* mutant of FirstIdleIndex: the negation in `b => !b.inUse` is dropped
FirstInUseIndex(p) ==
    IF \E i \in 1..Len(p) : p[i].inUse
    THEN CHOOSE i \in 1..Len(p) : p[i].inUse /\ \A j \in 1..(i-1) : ~p[j].inUse
    ELSE 0

\* Array.prototype.find / findIndex: the first index that satisfies P, 0 if none
FirstIdleIndex(p) ==
    IF \E i \in 1..Len(p) : ~p[i].inUse
    THEN CHOOSE i \in 1..Len(p) : ~p[i].inUse /\ \A j \in 1..(i-1) : p[j].inUse
    ELSE 0

\* mutant of FindIndex: no match yields the last index, as if -1 were used as an index from
\* the end
FindIndexOrLast(p, id) ==
    IF \E i \in 1..Len(p) : p[i].id = id
    THEN CHOOSE i \in 1..Len(p) : p[i].id = id /\ \A j \in 1..(i-1) : p[j].id # id
    ELSE Len(p)

\* releaseBrowser, line 460: this.pool.findIndex(b => b.id === browserId)
FindIndex(p, id) ==
    IF \E i \in 1..Len(p) : p[i].id = id
    THEN CHOOSE i \in 1..Len(p) : p[i].id = id /\ \A j \in 1..(i-1) : p[j].id # id
    ELSE 0

\* Array.prototype.splice(index, 1) with a 1-based index; beyond the end it removes nothing
Splice(s, index) ==
    IF index \in 1..Len(s)
    THEN [k \in 1..(Len(s)-1) |-> IF k < index THEN s[k] ELSE s[k+1]]
    ELSE s

\* mutant of PoolHasRoom: <= for <
PoolHasRoomOffByOne(p) == Len(p) <= maxPoolSize

\* getBrowser, line 436: this.pool.length < this.maxPoolSize
PoolHasRoom(p) == Len(p) < maxPoolSize

\* mutant of Enqueue: unshift for push
EnqueueFront(q, e) == <<e>> \o q

\* getBrowser, line 451: this.queue.push(queueItem)
Enqueue(q, e) == Append(q, e)

\* mutant of ShiftQueue: pop for shift
PopQueue(q) == [item |-> q[Len(q)], rest |-> SubSeq(q, 1, Len(q) - 1)]

\* releaseBrowser, line 469: this.queue.shift()
ShiftQueue(q) == [item |-> Head(q), rest |-> Tail(q)]

\* the callers whose entries are in q
QueuedCallers(q) == {q[k].caller : k \in 1..Len(q)}

\* nextRequest.resolve(handle): a promise settles once, later calls do nothing
ResolvePc(pcs, c) == [pcs EXCEPT ![c] = IF pcs[c] = "queued" THEN "holding" ELSE @]
ResolveHeld(pcs, hs, c, id) == [hs EXCEPT ![c] = IF pcs[c] = "queued" THEN id ELSE @]

\* req.reject(error) for every caller in S
RejectPc(pcs, S) == [c \in AllCallers |-> IF c \in S /\ pcs[c] = "queued" THEN "idle" ELSE pcs[c]]
CountSettle(st, S) == [c \in AllCallers |-> IF c \in S THEN st[c] + 1 ELSE st[c]]

\* ---------------------------------------------------------------- Init

\* the state a new BrowserPool is in, whatever its options
InitPool ==
    /\ pool = <<>>
    /\ queue = <<>>
    /\ pc = [c \in AllCallers |-> "idle"]
    /\ held = [c \in AllCallers |-> NoId]
    /\ settled = [c \in AllCallers |-> 0]
    /\ nextId = 1
    /\ closeCalls = [h \in Ids |-> 0]
    /\ sweep = [s \in AllSweeps |-> SweepIdle]
    /\ shut = [phase |-> "idle", idx |-> 0]
    /\ clock = 0
    /\ ev = Event("init", NoId, "")

\* the locals of downloadFile: its position, `retries`, the passes of its loop that went
\* on to borrow a handle, and how it ended
NoTransfer == [stage |-> "none", retries |-> 0, attempts |-> 0, result |-> ""]

\* the selectors of waitForVerification (index.js 58-68), in the order they are probed
Markers == 1..NumMarkers

\* the locals of getVideoInfo and waitForVerification: the position, the selector being
\* probed, captchaFound and captchaSelector (0 is the empty string), whether the debug
\* files were written, the target offsets of the drags made (in tenths of a pixel),
\* maxSlideDistance, the polls of the wait for completion, whether that wait was started,
\* the return statement that ended waitForVerification with the value it returned, and
\* how getVideoInfo ended
NoVerif ==
    [stage |-> "none", k |-> 0, captchaFound |-> FALSE, captchaSelector |-> 0,
     artifacts |-> FALSE, drags |-> <<>>, maxSlideDistance |-> 0, waited |-> 0,
     raced |-> FALSE, outcome |-> "", ret |-> "", ended |-> ""]

\* the step did not look at a page
NoPage == [present |-> {}, onVerify |-> FALSE, looked |-> FALSE]

\* no downloadFile and no getVideoInfo call is made
InitNoTransfer ==
    /\ maxRetries = MaxRetries
    /\ transfer = [c \in AllCallers |-> NoTransfer]
    /\ file = "absent"
    /\ verif = [c \in AllCallers |-> NoVerif]
    /\ seen = NoPage

Init ==
    /\ maxQueueSize \in 1..MaxQueueSize
    /\ browserTimeout = DefaultBrowserTimeout
    /\ InitPool
    /\ InitNoTransfer

\* a pool whose idle timeout is shorter than the queue-expiry window
InitBurst ==
    /\ maxQueueSize = BurstQueueSize
    /\ browserTimeout = 0
    /\ InitPool
    /\ InitNoTransfer

\* a downloader whose callers are downloadFile calls for one target path, which may exist
InitTransfer ==
    /\ maxQueueSize \in 1..MaxQueueSize
    /\ browserTimeout = DefaultBrowserTimeout
    /\ InitPool
    /\ maxRetries \in 1..MaxRetries
    /\ transfer = [c \in AllCallers |-> NoTransfer]
    /\ file \in {"absent", "complete"}
    /\ verif = [c \in AllCallers |-> NoVerif]
    /\ seen = NoPage

\* a downloader whose callers are getVideoInfo calls
InitResolver ==
    /\ maxQueueSize \in 1..MaxQueueSize
    /\ browserTimeout = DefaultBrowserTimeout
    /\ InitPool
    /\ InitNoTransfer

\* ---------------------------------------------------------- getBrowser

\* mutant of QueueIsFull: > for >=
QueueIsOverFull(q) == Len(q) > maxQueueSize

\* getBrowser, line 444: this.queue.length >= this.maxQueueSize
QueueIsFull(q) == Len(q) >= maxQueueSize

\* Idle callers carry no state, so the next call is made by the lowest idle one.
NextCaller(c) == pc[c] = "idle" /\ \A d \in AllCallers : d < c => pc[d] # "idle"

\* getBrowser, lines 426-433: an idle handle is found and returned
AcquireReuse(c) ==
    LET i == FirstIdleIndex(pool) IN
    /\ i # 0
    /\ pool' = [pool EXCEPT ![i].inUse = TRUE, ![i].lastUsed = clock]
    /\ pc' = [pc EXCEPT ![c] = "holding"]
    /\ held' = [held EXCEPT ![c] = pool[i].id]
    /\ ev' = Event("acquire", pool[i].id, "reused")
    /\ UNCHANGED <<queue, settled>>

\* getBrowser, lines 436-437: the pool has room, the caller is suspended in engine startup
AcquireCreate(c) ==
    /\ FirstIdleIndex(pool) = 0
    /\ PoolHasRoom(pool)
    /\ pc' = [pc EXCEPT ![c] = "creating"]
    /\ ev' = Event("acquire", NoId, "creating")
    /\ UNCHANGED <<pool, queue, held, settled>>

\* getBrowser, lines 444-446: pool and queue are full
AcquireQueueFull(c) ==
    /\ FirstIdleIndex(pool) = 0
    /\ ~PoolHasRoom(pool)
    /\ QueueIsFull(queue)
    /\ ev' = Event("acquire", NoId, "QueueFull")
    /\ UNCHANGED <<pool, queue, pc, held, settled>>

\* getBrowser, lines 448-452: the caller is enqueued and suspended
AcquireEnqueue(c) ==
    /\ FirstIdleIndex(pool) = 0
    /\ ~PoolHasRoom(pool)
    /\ ~QueueIsFull(queue)
    /\ queue' = Enqueue(queue, [caller |-> c, timestamp |-> clock])
    /\ pc' = [pc EXCEPT ![c] = "queued"]
    /\ settled' = [settled EXCEPT ![c] = 0]
    /\ ev' = Event("acquire", NoId, "queued")
    /\ UNCHANGED <<pool, held>>

getBrowser(c) ==
    /\ NextCaller(c)
    /\ \/ AcquireReuse(c)
       \/ AcquireCreate(c)
       \/ AcquireQueueFull(c)
       \/ AcquireEnqueue(c)
    /\ UNCHANGED <<maxQueueSize, browserTimeout, verif, seen, maxRetries, transfer, file, nextId, closeCalls, sweep, shut, clock>>

\* _createBrowserInstance returns (lines 581-589) and getBrowser pushes the handle (438-440)
createBrowserInstance(c) ==
    /\ pc[c] = "creating"
    /\ nextId <= MaxIds
    /\ pool' = Append(pool, [id |-> nextId, inUse |-> TRUE, lastUsed |-> clock])
    /\ nextId' = nextId + 1
    /\ pc' = [pc EXCEPT ![c] = "holding"]
    /\ held' = [held EXCEPT ![c] = nextId]
    /\ ev' = Event("created", nextId, "created")
    /\ UNCHANGED <<maxQueueSize, browserTimeout, verif, seen, maxRetries, transfer, file, queue, settled, closeCalls, sweep, shut, clock>>

\* puppeteer.launch (or a page set-up call) rejects: getBrowser rejects, nothing is pushed
createBrowserInstanceFails(c) ==
    /\ pc[c] = "creating"
    /\ pc' = [pc EXCEPT ![c] = "idle"]
    /\ ev' = Event("created", NoId, "LaunchError")
    /\ UNCHANGED <<maxQueueSize, browserTimeout, verif, seen, maxRetries, transfer, file, pool, queue, held, settled, nextId, closeCalls, sweep, shut, clock>>

\* ------------------------------------------------------- releaseBrowser

\* mutant of Release: the call does nothing and the caller keeps its handle
ReleaseKeeps(c, id, after) ==
    /\ ev' = Event("release", id, "unknown")
    /\ UNCHANGED <<pool, queue, pc, held, settled>>

\* releaseBrowser(browserId), lines 459-474, called by c, which goes on at `after`
Release(c, id, after) ==
    LET index == FindIndex(pool, id)
        pcR == [pc EXCEPT ![c] = after]
        heldR == [held EXCEPT ![c] = IF after = "idle" THEN NoId ELSE id]
    IN
    /\ IF index # 0
       THEN /\ pool' = [pool EXCEPT ![index].inUse = FALSE, ![index].lastUsed = clock]
            /\ IF Len(queue) > 0
               THEN LET nextRequest == ShiftQueue(queue).item IN
                    /\ queue' = ShiftQueue(queue).rest
                    /\ settled' = CountSettle(settled, {nextRequest.caller})
                    /\ pc' = ResolvePc(pcR, nextRequest.caller)
                    /\ held' = ResolveHeld(pcR, heldR, nextRequest.caller, id)
                    /\ ev' = Event("release", id, "handoff")
               ELSE /\ pc' = pcR
                    /\ held' = heldR
                    /\ ev' = Event("release", id, "idle")
                    /\ UNCHANGED <<queue, settled>>
       ELSE /\ pc' = pcR
            /\ held' = heldR
            /\ ev' = Event("release", id, "unknown")
            /\ UNCHANGED <<pool, queue, settled>>

\* the finally block of a caller (index.js 859-864, 1054-1060) releases the handle it holds
releaseBrowser(c) ==
    /\ pc[c] = "holding"
    /\ Release(c, held[c], "idle")
    /\ UNCHANGED <<maxQueueSize, browserTimeout, verif, seen, maxRetries, transfer, file, nextId, closeCalls, sweep, shut, clock>>

\* a client of the pool that calls releaseBrowser(id) twice: after the first call it keeps
\* the id ("released"), and later it calls releaseBrowser with the same id again
releaseFirst(c) ==
    /\ pc[c] = "holding"
    /\ Release(c, held[c], "released")
    /\ UNCHANGED <<maxQueueSize, browserTimeout, verif, seen, maxRetries, transfer, file, nextId, closeCalls, sweep, shut, clock>>

releaseAgain(c) ==
    /\ pc[c] = "released"
    /\ Release(c, held[c], "idle")
    /\ UNCHANGED <<maxQueueSize, browserTimeout, verif, seen, maxRetries, transfer, file, nextId, closeCalls, sweep, shut, clock>>

\* -------------------------------------------------------------- cleanup

\* cleanup, lines 621-628: the indices of the handles that are idle and timed out at `now`
ToRemove(p, now) ==
    SelectSeq([k \in 1..Len(p) |-> k],
              LAMBDA k : ~p[k].inUse /\ (now - p[k].lastUsed > browserTimeout))

\* mutant of Expired: no entry is ever old enough
ExpiredNever(q, now) == {}

\* cleanup, line 650: the entries older than the queue-expiry window at `now`
Expired(q, now) == {k \in 1..Len(q) : now - q[k].timestamp > queueTimeout}

\* mutant of QueueAfterExpiry: the expired entries are rejected and left in the queue
QueueKeepExpired(q, now) == q

\* cleanup, lines 652-658: every expired entry is spliced out of the queue
QueueAfterExpiry(q, now) == SelectSeq(q, LAMBDA e : ~(now - e.timestamp > queueTimeout))

\* cleanup, lines 648-658: the callers of the expired entries are rejected
ExpireQueue(now) ==
    LET S == {queue[k].caller : k \in Expired(queue, now)} IN
    /\ queue' = QueueAfterExpiry(queue, now)
    /\ pc' = RejectPc(pc, S)
    /\ settled' = CountSettle(settled, S)
    /\ held' = held

\* cleanup, lines 633-638: the instance at toRemove[i] is read and its engine close starts;
\* an index beyond the end of the pool reads undefined and `instance.id` throws
CloseAt(s, p, now, toRemove, i, err) ==
    IF toRemove[i] \in 1..Len(p)
    THEN /\ closeCalls' = [closeCalls EXCEPT ![p[toRemove[i]].id] = @ + 1]
         /\ sweep' = [sweep EXCEPT ![s] =
                        [phase |-> "closing", now |-> now, toRemove |-> toRemove, i |-> i,
                         instance |-> p[toRemove[i]].id]]
         /\ ev' = EventErr("sweep", p[toRemove[i]].id, "closing", err)
         /\ UNCHANGED <<queue, pc, held, settled>>
    ELSE /\ sweep' = [sweep EXCEPT ![s] = SweepIdle]
         /\ ev' = EventErr("sweep", NoId, "TypeError", err)
         /\ UNCHANGED <<closeCalls, queue, pc, held, settled>>

\* cleanup, lines 646-658: the loop is over, the expired queue entries are failed
cleanupFinish(s, now, err) ==
    /\ ExpireQueue(now)
    /\ sweep' = [sweep EXCEPT ![s] = SweepIdle]
    /\ ev' = EventErr("sweep", NoId, IF Expired(queue, now) = {} THEN "done" ELSE "expired", err)
    /\ UNCHANGED closeCalls

\* the interval timer of startCleanupTask fires (lines 692-696): cleanup runs up to its
\* first await; close() clears the timer once closeAll has returned (index.js 1070-1071)
cleanup(s) ==
    LET now == clock
        toRemove == ToRemove(pool, now)
    IN
    /\ sweep[s].phase = "idle"
    /\ shut.phase # "done"
    /\ IF Len(toRemove) > 0
       THEN CloseAt(s, pool, now, toRemove, Len(toRemove), FALSE)
       ELSE cleanupFinish(s, now, FALSE)
    /\ UNCHANGED <<maxQueueSize, browserTimeout, verif, seen, maxRetries, transfer, file, pool, nextId, shut, clock>>

\* cleanup, lines 638-644: browser.close() has settled, fulfilled (ok) or rejected; a
\* rejection is caught and logged (639-641); the entry at the scanned index is spliced out
\* and the loop goes on
cleanupResume(s) ==
    LET now == sweep[s].now
        toRemove == sweep[s].toRemove
        i == sweep[s].i
        spliced == Splice(pool, toRemove[i])
    IN
    /\ sweep[s].phase = "closing"
    /\ pool' = spliced
    /\ \E ok \in BOOLEAN :
          IF i > 1
          THEN CloseAt(s, spliced, now, toRemove, i - 1, ~ok)
          ELSE cleanupFinish(s, now, ~ok)
    /\ UNCHANGED <<maxQueueSize, browserTimeout, verif, seen, maxRetries, transfer, file, nextId, shut, clock>>

\* ------------------------------------------------------------- closeAll

\* closeAll, lines 676-684: the pool is emptied and every queued request is rejected
closeAllFinish(err) ==
    /\ pool' = <<>>
    /\ pc' = RejectPc(pc, QueuedCallers(queue))
    /\ settled' = CountSettle(settled, QueuedCallers(queue))
    /\ queue' = <<>>
    /\ shut' = [phase |-> "done", idx |-> 0]
    /\ ev' = EventErr("closeAll", NoId, "done", err)
    /\ UNCHANGED <<held, closeCalls>>

\* closeAll, lines 667-669: the array iterator yields this.pool[idx] and its close starts
closeAllAt(idx, err) ==
    /\ closeCalls' = [closeCalls EXCEPT ![pool[idx].id] = @ + 1]
    /\ shut' = [phase |-> "closing", idx |-> idx]
    /\ ev' = EventErr("closeAll", pool[idx].id, "closing", err)
    /\ UNCHANGED <<pool, queue, pc, held, settled>>

\* DouyinDownloader.close calls closeAll (index.js 1068-1070)
closeAll ==
    /\ shut.phase = "idle"
    /\ IF Len(pool) >= 1 THEN closeAllAt(1, FALSE) ELSE closeAllFinish(FALSE)
    /\ UNCHANGED <<maxQueueSize, browserTimeout, verif, seen, maxRetries, transfer, file, nextId, sweep, clock>>

\* closeAll, lines 667-674: a close has settled, fulfilled (ok) or rejected; a rejection is
\* caught and logged (671-673); the iterator looks at the pool as it is now
closeAllResume ==
    /\ shut.phase = "closing"
    /\ \E ok \in BOOLEAN :
          IF shut.idx + 1 <= Len(pool)
          THEN closeAllAt(shut.idx + 1, ~ok)
          ELSE closeAllFinish(~ok)
    /\ UNCHANGED <<maxQueueSize, browserTimeout, verif, seen, maxRetries, transfer, file, nextId, sweep, clock>>

\* ----------------------------------------------------------------- time

Tick ==
    /\ clock < MaxTime
    /\ clock' = clock + 1
    /\ ev' = Event("tick", NoId, "")
    /\ UNCHANGED <<maxQueueSize, browserTimeout, verif, seen, maxRetries, transfer, file, pool, queue, pc, held, settled, nextId, closeCalls, sweep, shut>>

Next ==
    \/ \E c \in Callers : getBrowser(c)
    \/ \E c \in Callers : createBrowserInstance(c)
    \/ \E c \in Callers : createBrowserInstanceFails(c)
    \/ \E c \in Callers : releaseBrowser(c)
    \/ \E s \in Sweeps : cleanup(s)
    \/ \E s \in Sweeps : cleanupResume(s)
    \/ closeAll
    \/ closeAllResume
    \/ Tick

Spec == Init /\ [][Next]_vars

\* a burst of requests: every getBrowser call is made before the first tick of the clock
NextBurst ==
    \/ \E c \in AllCallers : clock = 0 /\ getBrowser(c)
    \/ \E c \in AllCallers : createBrowserInstance(c)
    \/ \E c \in AllCallers : releaseBrowser(c)
    \/ \E s \in AllSweeps : cleanup(s)
    \/ \E s \in AllSweeps : cleanupResume(s)
    \/ Tick

SpecBurst == InitBurst /\ [][NextBurst]_vars

\* the pool under clients that release a handle twice
NextTwice ==
    \/ \E c \in Callers : getBrowser(c)
    \/ \E c \in Callers : createBrowserInstance(c)
    \/ \E c \in Callers : releaseBrowser(c)
    \/ \E c \in Callers : releaseFirst(c)
    \/ \E c \in Callers : releaseAgain(c)
    \/ Tick

SpecTwice == Init /\ [][NextTwice]_vars

\* ---------------------------------------------------------- downloadFile

\* the callers that run downloadFile (index.js 974-1063; downloadCoverImage 878-967 has the
\* same loop)
Transfers == 1..NumTransfers

\* A continuation that runs in the same turn of the event loop is due: the loop top after
\* the finally block, or the catch block after getBrowser has rejected.
Due(c) == transfer[c].stage = "top" \/ (transfer[c].stage = "borrow" /\ pc[c] = "idle")
NoneDue == \A c \in Transfers : ~Due(c)

\* line 1048: retries < this.maxRetries
RetryAllowed(retries) == retries < maxRetries

\* the catch block, lines 1044-1053: retries++, then the retry delay is awaited or the
\* error is thrown
Caught(t) ==
    IF RetryAllowed(t.retries + 1)
    THEN [t EXCEPT !.retries = @ + 1, !.stage = "delay"]
    ELSE [t EXCEPT !.retries = @ + 1, !.stage = "raised", !.result = "ExhaustedRetries"]

\* mutant of FailHolding: the finally block does not release the handle
FailHoldingKeeps(c) ==
    /\ transfer' = [transfer EXCEPT ![c] = Caught(@)]
    /\ ev' = Event("transfer", held[c], "caught")
    /\ UNCHANGED <<pool, queue, pc, held, settled>>

\* an awaited call made with the handle fails: the catch block runs; when it throws, the
\* finally block (1054-1060) releases the handle
FailHolding(c) ==
    /\ transfer' = [transfer EXCEPT ![c] = Caught(@)]
    /\ IF Caught(transfer[c]).stage = "raised"
       THEN Release(c, held[c], "idle")
       ELSE /\ ev' = Event("transfer", held[c], "caught")
            /\ UNCHANGED <<pool, queue, pc, held, settled>>

\* mutant of Exists: only a completely written file counts
ExistsComplete(f) == f = "complete"

\* line 993: fs.existsSync(targetPath)
Exists(f) == f # "absent"

\* one pass of the loop up to its first await, lines 978-1000: the target path is looked up
\* with existsSync; if it is absent getBrowser is called, and a rejection of that call in
\* the same turn (the queue is full) is caught at once
Top(c) ==
    IF Exists(file)
    THEN /\ transfer' = [transfer EXCEPT ![c].stage = "returned", ![c].result = "exists"]
         /\ ev' = Event("transfer", NoId, "exists")
         /\ UNCHANGED <<pool, queue, pc, held, settled>>
    ELSE /\ \/ AcquireReuse(c)
            \/ AcquireCreate(c)
            \/ AcquireQueueFull(c)
            \/ AcquireEnqueue(c)
         /\ transfer' = [transfer EXCEPT ![c] =
                IF FirstIdleIndex(pool) = 0 /\ ~PoolHasRoom(pool) /\ QueueIsFull(queue)
                THEN Caught([@ EXCEPT !.attempts = @ + 1])
                ELSE [@ EXCEPT !.attempts = @ + 1, !.stage = "borrow"]]

\* downloadFile is called
downloadFile(c) ==
    /\ NoneDue
    /\ transfer[c].stage = "none"
    /\ Top(c)
    /\ UNCHANGED <<maxQueueSize, browserTimeout, verif, seen, maxRetries, file, nextId, closeCalls, sweep, shut, clock>>

\* the next pass of the loop, in the turn in which the finally block has run
nextPass(c) ==
    /\ transfer[c].stage = "top"
    /\ Top(c)
    /\ UNCHANGED <<maxQueueSize, browserTimeout, verif, seen, maxRetries, file, nextId, closeCalls, sweep, shut, clock>>

\* getBrowser has rejected while the call was suspended (line 1000): the catch block runs
\* with no handle
borrowFailed(c) ==
    /\ transfer[c].stage = "borrow"
    /\ pc[c] = "idle"
    /\ transfer' = [transfer EXCEPT ![c] = Caught(@)]
    /\ ev' = Event("transfer", NoId, "caught")
    /\ UNCHANGED <<pool, queue, pc, held, settled>>
    /\ UNCHANGED <<maxQueueSize, browserTimeout, verif, seen, maxRetries, file, nextId, closeCalls, sweep, shut, clock>>

\* line 1005: page.cookies(url) settles; when it resolves the axios request is made (1009)
cookies(c) ==
    /\ NoneDue
    /\ transfer[c].stage = "borrow"
    /\ pc[c] = "holding"
    /\ \E ok \in BOOLEAN :
          IF ok
          THEN /\ transfer' = [transfer EXCEPT ![c].stage = "fetch"]
               /\ ev' = Event("transfer", held[c], "fetch")
               /\ UNCHANGED <<pool, queue, pc, held, settled>>
          ELSE FailHolding(c)
    /\ UNCHANGED <<maxQueueSize, browserTimeout, verif, seen, maxRetries, file, nextId, closeCalls, sweep, shut, clock>>

\* lines 1009-1040: the axios request settles; when it resolves the write stream is created
\* at targetPath and the response is piped into it
fetch(c) ==
    /\ NoneDue
    /\ transfer[c].stage = "fetch"
    /\ \E ok \in BOOLEAN :
          IF ok
          THEN /\ transfer' = [transfer EXCEPT ![c].stage = "write"]
               /\ file' = "partial"
               /\ ev' = Event("transfer", held[c], "write")
               /\ UNCHANGED <<pool, queue, pc, held, settled>>
          ELSE FailHolding(c) /\ UNCHANGED file
    /\ UNCHANGED <<maxQueueSize, browserTimeout, verif, seen, maxRetries, nextId, closeCalls, sweep, shut, clock>>

\* lines 1037-1043 and 1054-1060: the writer emits finish (the path is returned, the finally
\* block releases the handle) or error (the catch block runs)
write(c) ==
    /\ NoneDue
    /\ transfer[c].stage = "write"
    /\ \E ok \in BOOLEAN :
          IF ok
          THEN /\ transfer' = [transfer EXCEPT ![c].stage = "returned", ![c].result = "written"]
               /\ file' = "complete"
               /\ Release(c, held[c], "idle")
          ELSE FailHolding(c) /\ UNCHANGED file
    /\ UNCHANGED <<maxQueueSize, browserTimeout, verif, seen, maxRetries, nextId, closeCalls, sweep, shut, clock>>

\* lines 1049 and 1054-1060: the retry delay is over, the finally block releases the handle
\* if one was borrowed, and the loop starts its next pass
delayOver(c) ==
    /\ NoneDue
    /\ transfer[c].stage = "delay"
    /\ transfer' = [transfer EXCEPT ![c].stage = "top"]
    /\ IF pc[c] = "holding"
       THEN Release(c, held[c], "idle")
       ELSE /\ ev' = Event("transfer", NoId, "top")
            /\ UNCHANGED <<pool, queue, pc, held, settled>>
    /\ UNCHANGED <<maxQueueSize, browserTimeout, verif, seen, maxRetries, file, nextId, closeCalls, sweep, shut, clock>>

NextTransfer ==
    \/ \E c \in Transfers : downloadFile(c)
    \/ \E c \in Transfers : nextPass(c)
    \/ \E c \in Transfers : borrowFailed(c)
    \/ \E c \in Transfers : NoneDue /\ createBrowserInstance(c)
    \/ \E c \in Transfers : NoneDue /\ createBrowserInstanceFails(c)
    \/ \E c \in Transfers : cookies(c)
    \/ \E c \in Transfers : fetch(c)
    \/ \E c \in Transfers : write(c)
    \/ \E c \in Transfers : delayOver(c)

SpecTransfer == InitTransfer /\ [][NextTransfer]_vars

\* --------------------------------------------------------------- liveness

\* The pool under requests that arrive before the first tick of the clock, so that the
\* bounded clock can pass the expiry of every entry they leave in the queue.
NextLive ==
    \/ \E c \in Callers : clock = 0 /\ getBrowser(c)
    \/ \E c \in Callers : createBrowserInstance(c)
    \/ \E c \in Callers : createBrowserInstanceFails(c)
    \/ \E c \in Callers : releaseBrowser(c)
    \/ \E s \in Sweeps : cleanup(s)
    \/ \E s \in Sweeps : cleanupResume(s)
    \/ closeAll
    \/ closeAllResume
    \/ Tick

\* Time passes; the interval timer of startCleanupTask (lines 692-696) fires whenever it
\* is set; an engine close that a sweep awaits settles.  Callers need not release and a
\* shutdown need not be asked for or finish.
FairLive ==
    /\ WF_vars(Tick)
    /\ \A s \in Sweeps : WF_vars(cleanup(s)) /\ WF_vars(cleanupResume(s))

SpecLive == Init /\ [][NextLive]_vars /\ FairLive

\* ----------------------------------------------------------- saveCookies

\* mutant of SaveOutcome: an error of page.cookies() or writeFileSync leaves saveCookies
SaveOutcomeThrows(found, ok) ==
    IF ~found THEN "unknown" ELSE IF ok THEN "saved" ELSE "thrown"

\* saveCookies, lines 599-610: how the call ends; an unknown id is logged and the call
\* returns (599-602), an error of page.cookies() or writeFileSync is caught and logged
\* (608-610)
SaveOutcome(found, ok) ==
    IF ~found THEN "unknown" ELSE IF ok THEN "saved" ELSE "logged"

\* saveCookies(browserId), lines 596-605, called by a caller for the handle it holds: the
\* handle is looked up with pool.find; the call returns at once for an unknown id, else
\* it is suspended in page.cookies()
saveCookies(c) ==
    /\ pc[c] = "holding"
    /\ IF FindIndex(pool, held[c]) = 0
       THEN /\ ev' = Event("saveCookies", held[c], SaveOutcome(FALSE, FALSE))
            /\ UNCHANGED pc
       ELSE /\ ev' = Event("saveCookies", held[c], "reading")
            /\ pc' = [pc EXCEPT ![c] = "saving"]
    /\ UNCHANGED <<maxQueueSize, browserTimeout, verif, seen, maxRetries, transfer, file, pool, queue,
                   held, settled, nextId, closeCalls, sweep, shut, clock>>

\* saveCookies, lines 604-610: page.cookies() has settled and, if it resolved, the file is
\* written; the call returns to its caller
saveCookiesResume(c) ==
    /\ pc[c] = "saving"
    /\ \E ok \in BOOLEAN : ev' = Event("saveCookies", held[c], SaveOutcome(TRUE, ok))
    /\ pc' = [pc EXCEPT ![c] = "holding"]
    /\ UNCHANGED <<maxQueueSize, browserTimeout, verif, seen, maxRetries, transfer, file, pool, queue,
                   held, settled, nextId, closeCalls, sweep, shut, clock>>

\* the pool under callers that save the cookies of the handle they hold, and a shutdown
NextSave ==
    \/ \E c \in Callers : getBrowser(c)
    \/ \E c \in Callers : createBrowserInstance(c)
    \/ \E c \in Callers : createBrowserInstanceFails(c)
    \/ \E c \in Callers : saveCookies(c)
    \/ \E c \in Callers : saveCookiesResume(c)
    \/ \E c \in Callers : releaseBrowser(c)
    \/ closeAll
    \/ closeAllResume

SpecSave == Init /\ [][NextSave]_vars

\* -------------------------------------- getVideoInfo and waitForVerification

\* the callers that run getVideoInfo (index.js 484-866)
Resolvers == 1..NumResolvers

\* '.captcha_verify_container', the first selector (line 59) and the one solveSlideCaptcha
\* tests after its first drag (line 442)
ContainerMarker == 1

\* 'iframe[src*="captcha"]' (line 61), the selector that sends the solver into the frame
IframeMarker == 3

\* what a step can observe of the page: the markers it shows and whether its URL contains
\* 'verify'; the page is the remote site's and changes between any two steps
Pages == [present : SUBSET Markers, onVerify : BOOLEAN, looked : {TRUE}]

\* waitForVerification returns: its locals are gone, its value and the files it wrote stay
Return(v, outcome, ret) ==
    [NoVerif EXCEPT !.stage = "after", !.captchaFound = v.captchaFound,
                    !.artifacts = v.artifacts, !.raced = v.raced,
                    !.outcome = outcome, !.ret = ret]

\* mutant of Found: the probe never finds its selector
FoundNever(k, pg) == FALSE

\* line 74: page.waitForSelector(selector) resolves
Found(k, pg) == k \in pg.present

\* lines 101-104: return false, no verification required
NotPresent(v) == Return(v, "NotPresent", "false")

\* mutant of Failed: the error leaves waitForVerification and getVideoInfo
FailedThrows(v) == [Return(v, "Failed", "") EXCEPT !.stage = "done", !.ended = "thrown"]

\* lines 182-185: the catch block returns false
Failed(v) == Return(v, "Failed", "false")

\* lines 180-181: return true
Resolved(v) == Return(v, "Resolved", "true")

\* lines 155-178: the wait for completion is started
Verifying(v) == [v EXCEPT !.stage = "verifying", !.raced = TRUE]

\* line 415: baseDistance = maxSlideDistance * 0.8, in tenths
baseDistance(m) == 8 * m

\* mutant of newBaseDistance: the retry uses the first distance
newBaseDistanceSame(m) == 8 * m

\* line 458: newBaseDistance = maxSlideDistance * 0.9, in tenths
newBaseDistance(m) == 9 * m

\* line 271: slideDistance = floor(trackWidth * 0.7 + Math.random() * 20), in tenths
slideDistance(w, j) == 7 * w + 10 * j

\* lines 158-167: some selector of the list matches nothing in the document
SomeSelectorGone(pg) == \E s \in Markers : s \notin pg.present

\* a step of getVideoInfo or waitForVerification that does not call the pool
PageStep(c, v, res, pg) ==
    /\ verif' = [verif EXCEPT ![c] = v]
    /\ seen' = pg
    /\ ev' = Event("page", held[c], res)
    /\ UNCHANGED <<maxQueueSize, browserTimeout, maxRetries, transfer, file, pool, queue, pc, held,
                   settled, nextId, closeCalls, sweep, shut, clock>>

\* getVideoInfo is called and calls getBrowser (line 490); when getBrowser throws at once
\* (the queue is full) the catch block rethrows and the finally block has nothing to release
getVideoInfo(c) ==
    /\ verif[c].stage = "none"
    /\ pc[c] = "idle"
    /\ \/ AcquireReuse(c)
       \/ AcquireCreate(c)
       \/ AcquireQueueFull(c)
       \/ AcquireEnqueue(c)
    /\ verif' = [verif EXCEPT ![c] =
          IF FirstIdleIndex(pool) = 0 /\ ~PoolHasRoom(pool) /\ QueueIsFull(queue)
          THEN [@ EXCEPT !.stage = "done", !.ended = "thrown"]
          ELSE [@ EXCEPT !.stage = "borrow"]]
    /\ UNCHANGED <<maxQueueSize, browserTimeout, seen, maxRetries, transfer, file, nextId,
                   closeCalls, sweep, shut, clock>>

\* getBrowser rejects while getVideoInfo is suspended in it: lines 853-856 rethrow
borrowRejected(c) ==
    /\ verif[c].stage = "borrow"
    /\ pc[c] = "idle"
    /\ PageStep(c, [verif[c] EXCEPT !.stage = "done", !.ended = "thrown"], "rejected", NoPage)

\* lines 491-556: the page is loaded and the debug files are written, errors of both are
\* caught; waitForVerification is called (line 559)
navigate(c) ==
    /\ verif[c].stage = "borrow"
    /\ pc[c] = "holding"
    /\ PageStep(c, [verif[c] EXCEPT !.stage = "probe", !.k = 1], "navigated", NoPage)

\* lines 71-82: one pass of the loop over the selectors; waitForSelector resolves or
\* rejects (time-out or another error, both caught)
probeSelector(c) ==
    /\ verif[c].stage = "probe"
    /\ \E pg \in Pages :
          LET v == verif[c] IN
          IF Found(v.k, pg)
          THEN PageStep(c, [v EXCEPT !.captchaFound = TRUE, !.captchaSelector = v.k,
                                     !.stage = "detected"], "found", pg)
          ELSE IF v.k < NumMarkers
               THEN PageStep(c, [v EXCEPT !.k = @ + 1], "probe", pg)
               ELSE PageStep(c, [v EXCEPT !.stage = "content"], "probe", pg)

\* lines 85-104: no selector was found; the page text is searched for the keywords
pageContent(c) ==
    /\ verif[c].stage = "content"
    /\ \E ok \in BOOLEAN, keyword \in BOOLEAN :
          IF ~ok
          THEN PageStep(c, Failed(verif[c]), "false", NoPage)
          ELSE IF keyword
               THEN PageStep(c, [verif[c] EXCEPT !.captchaFound = TRUE, !.stage = "detected"],
                             "found", NoPage)
               ELSE PageStep(c, NotPresent(verif[c]), "false", NoPage)

\* lines 108-123: the screenshot and the HTML of the page are written to the debug directory
saveArtifacts(c) ==
    /\ verif[c].stage = "detected"
    /\ \E ok \in BOOLEAN :
          IF ok
          THEN PageStep(c, [verif[c] EXCEPT !.artifacts = TRUE, !.stage = "solve"], "saved", NoPage)
          ELSE PageStep(c, Failed(verif[c]), "false", NoPage)

\* lines 126-144 and solveSlideCaptchaInFrame (193-356): the frame is looked up and, if it is
\* there, one drag is made in it; every error is caught (143-145)
solveSlideCaptchaInFrame(c) ==
    /\ verif[c].stage = "solve"
    /\ verif[c].captchaFound /\ verif[c].captchaSelector = IframeMarker
    /\ \/ PageStep(c, Verifying(verif[c]), "nodrag", NoPage)
       \/ \E w \in 1..MaxSlide, j \in 0..MaxJitter :
             PageStep(c, Verifying([verif[c] EXCEPT !.drags = <<slideDistance(w, j)>>]), "drag", NoPage)

\* lines 146-153 and solveSlideCaptcha up to its test of the result (363-444): slider and
\* track are looked up (a missing one throws) and the first drag is made; an error during
\* or after the drag is caught by line 150
solveSlideCaptcha(c) ==
    /\ verif[c].stage = "solve"
    /\ ~(verif[c].captchaFound /\ verif[c].captchaSelector = IframeMarker)
    /\ \/ PageStep(c, Verifying(verif[c]), "nodrag", NoPage)
       \/ \E m \in 1..MaxSlide, ok \in BOOLEAN :
             LET v == [verif[c] EXCEPT !.drags = <<baseDistance(m)>>, !.maxSlideDistance = m] IN
             IF ok
             THEN PageStep(c, [v EXCEPT !.stage = "check"], "drag", NoPage)
             ELSE PageStep(c, Verifying(v), "drag", NoPage)

\* lines 441-476: the container is looked for; if it is still there the slider is looked up
\* again (a missing one throws) and the second drag is made
solveRetry(c) ==
    /\ verif[c].stage = "check"
    /\ \E pg \in Pages, ok \in BOOLEAN :
          LET v == verif[c] IN
          IF ContainerMarker \notin pg.present \/ ~ok
          THEN PageStep(c, Verifying(v), "nodrag", pg)
          ELSE PageStep(c, Verifying([v EXCEPT !.drags =
                              Append(@, newBaseDistance(v.maxSlideDistance))]), "drag", pg)

\* lines 155-185: one poll of the two waitForFunction calls raced at line 156, or an error
\* of one of them, or their time-out
waitVerified(c) ==
    /\ verif[c].stage = "verifying"
    /\ \E pg \in Pages, err \in BOOLEAN :
          LET v == verif[c] IN
          IF err
          THEN PageStep(c, Failed(v), "false", pg)
          ELSE IF SomeSelectorGone(pg) \/ ~pg.onVerify
               THEN PageStep(c, Resolved(v), "true", pg)
               ELSE IF v.waited < VerifyBudget
                    THEN PageStep(c, [v EXCEPT !.waited = @ + 1], "poll", pg)
                    ELSE PageStep(c, Failed(v), "false", pg)

\* lines 560-864: getVideoInfo goes on with the value of waitForVerification, returns or
\* throws, and its finally block releases the handle
extractInfo(c) ==
    /\ verif[c].stage = "after"
    /\ \E ok \in BOOLEAN :
          verif' = [verif EXCEPT ![c].stage = "done",
                                 ![c].ended = IF ok THEN "returned" ELSE "thrown"]
    /\ Release(c, held[c], "idle")
    /\ UNCHANGED <<maxQueueSize, browserTimeout, seen, maxRetries, transfer, file, nextId,
                   closeCalls, sweep, shut, clock>>

NextResolver ==
    \/ \E c \in Resolvers : getVideoInfo(c)
    \/ \E c \in Resolvers : createBrowserInstance(c)
    \/ \E c \in Resolvers : createBrowserInstanceFails(c)
    \/ \E c \in Resolvers : borrowRejected(c)
    \/ \E c \in Resolvers : navigate(c)
    \/ \E c \in Resolvers : probeSelector(c)
    \/ \E c \in Resolvers : pageContent(c)
    \/ \E c \in Resolvers : saveArtifacts(c)
    \/ \E c \in Resolvers : solveSlideCaptchaInFrame(c)
    \/ \E c \in Resolvers : solveSlideCaptcha(c)
    \/ \E c \in Resolvers : solveRetry(c)
    \/ \E c \in Resolvers : waitVerified(c)
    \/ \E c \in Resolvers : extractInfo(c)

SpecResolver == InitResolver /\ [][NextResolver]_vars

\* ---------------------------------------------------------------- claims

InPool(id) == FindIndex(pool, id) # 0
SomeIdle(p) == \E i \in 1..Len(p) : ~p[i].inUse
Holders(id) == {c \in Callers : pc[c] = "holding" /\ held[c] = id}
PosOf(q, c) == CHOOSE k \in 1..Len(q) : q[k].caller = c

\* C1: the pool collection never holds more handles than capacity (maxPoolSize),
\* whatever the interleaving of acquire, release, sweeps and shutdown.
C1_PoolWithinCapacity == Len(pool) <= maxPoolSize

\* C2: no two borrowers hold the same handle at the same time.
C2_NoSharedHandle ==
    \A c, d \in Callers :
        (c # d /\ pc[c] = "holding" /\ pc[d] = "holding") => held[c] # held[d]

\* C3: a handle of the pool that a borrower holds is InUse (inUse = true) until that
\* borrower releases it, also when it was handed over by release to a queued entry.
C3_HeldIsInUse ==
    \A c \in Callers : \A i \in 1..Len(pool) :
        (pc[c] = "holding" /\ pool[i].id = held[c]) => pool[i].inUse

\* C4: a release of a handle of the pool, made while the queue is non-empty, removes the
\* oldest entry in that same step and fulfils it with exactly the released handle.
C4_ReleaseHandsOverToHead ==
    [][(ev'.op = "release" /\ InPool(ev'.h) /\ Len(queue) > 0)
        => /\ queue' = Tail(queue)
           /\ pc'[Head(queue).caller] = "holding"
           /\ held'[Head(queue).caller] = ev'.h
           /\ settled'[Head(queue).caller] = 1
           /\ Len(pool') = Len(pool)
           /\ \A c \in Callers \ {Head(queue).caller} :
                pc'[c] = "holding" => pc[c] = "holding"]_vars

C4_Witness ==
    /\ ev.op = "release" /\ ev.res = "handoff"
    /\ \E c \in Callers : pc[c] = "holding" /\ held[c] = ev.h /\ settled[c] = 1

\* C5: queued entries are fulfilled in enqueue order: an entry that is fulfilled is the
\* oldest one in the queue, new entries go behind the waiting ones, and the waiting
\* ones keep their order.
C5_FifoOrder ==
    [][/\ \A c \in Callers :
            (pc[c] = "queued" /\ pc'[c] = "holding")
                => (Len(queue) > 0 /\ queue[1].caller = c)
       /\ \A i, j \in 1..Len(queue') :
            (i < j /\ queue'[j].caller \in QueuedCallers(queue))
                => /\ queue'[i].caller \in QueuedCallers(queue)
                   /\ PosOf(queue, queue'[i].caller) < PosOf(queue, queue'[j].caller)]_vars

C5_Witness ==
    /\ ev.op = "release" /\ ev.res = "handoff"
    /\ Len(queue) >= 1
    /\ Holders(ev.h) # {}

\* C6: between pool operations the queue is never non-empty while a handle of the
\* pool is Idle.
C6_NoIdleWhileWaiting == ~(Len(queue) > 0 /\ SomeIdle(pool))

\* C7: the queue never holds more than queueCapacity (maxQueueSize) entries.
C7_QueueWithinCapacity == Len(queue) <= maxQueueSize

C7_Witness ==
    /\ ev.op = "acquire" /\ ev.res = "QueueFull"
    /\ Len(queue) = maxQueueSize

\* C8: an acquire made when the pool holds capacity handles and the queue holds
\* queueCapacity entries fails at once with QueueFull: no caller is suspended, no handle
\* is given out or created, and pool and queue stay as they were.
C8_QueueFullRejects ==
    [][(ev'.op = "acquire" /\ Len(pool) = maxPoolSize /\ Len(queue) = maxQueueSize)
        => /\ ev'.res = "QueueFull"
           /\ UNCHANGED <<pool, queue, pc, held, nextId>>]_vars

C8_Witness ==
    /\ ev.op = "acquire" /\ ev.res = "QueueFull"
    /\ Len(pool) = maxPoolSize
    /\ \A c \in Callers : pc[c] # "creating"

C10_SettledOnce ==
    \A c \in Callers :
        /\ settled[c] <= 1
        /\ c \in QueuedCallers(queue) => (settled[c] = 0 /\ pc[c] = "queued")
        /\ Cardinality({k \in 1..Len(queue) : queue[k].caller = c}) <= 1

C10_Witness ==
    /\ ev.op = "sweep" /\ ev.res = "expired"
    /\ \E c \in Callers :
        settled[c] = 1 /\ pc[c] = "idle" /\ c \notin QueuedCallers(queue)

\* C11: when a sweep ends, every entry that was older than the queue-expiry window at the
\* sweep's `now` has been removed from the queue and its caller failed (settled once, no
\* handle), and every younger entry is still queued and unsettled.
C11_SweepExpiresOldEntries ==
    [][(ev'.op = "sweep" /\ ev'.res # "closing")
        => LET ended == {s \in AllSweeps : sweep[s].phase = "closing" /\ sweep'[s].phase = "idle"}
               now == IF ended # {} THEN sweep[CHOOSE s \in ended : TRUE].now ELSE clock
           IN \A k \in 1..Len(queue) :
                IF now - queue[k].timestamp > queueTimeout
                THEN /\ queue[k].caller \notin QueuedCallers(queue')
                     /\ pc'[queue[k].caller] = "idle"
                     /\ settled'[queue[k].caller] = 1
                ELSE /\ queue[k].caller \in QueuedCallers(queue')
                     /\ pc'[queue[k].caller] = "queued"
                     /\ settled'[queue[k].caller] = 0]_vars

\* C12: no step of a sweep starts the engine close of, or splices out of the pool, a
\* handle whose inUse flag is set at that moment.
C12_SweepSparesInUse ==
    [][ev'.op = "sweep"
        => \A i \in 1..Len(pool) :
              pool[i].inUse
                  => /\ FindIndex(pool', pool[i].id) # 0
                     /\ ev'.res = "closing" => ev'.h # pool[i].id]_vars

\* C13: no step of a sweep starts the engine close of, or splices out of the pool, a
\* handle that is idle and whose idle age (now - lastUsed) at that moment is not greater
\* than browserTimeout.
C13_SweepSparesYoungIdle ==
    [][ev'.op = "sweep"
        => \A i \in 1..Len(pool) :
              (~pool[i].inUse /\ ~(clock - pool[i].lastUsed > browserTimeout))
                  => /\ FindIndex(pool', pool[i].id) # 0
                     /\ ev'.res = "closing" => ev'.h # pool[i].id]_vars

\* C14: once closeAll has been called, every getBrowser call fails with a shutting-down
\* error: it returns no handle, starts no engine and enqueues no entry.
C14_AcquireAfterShutdownFails ==
    [][(shut.phase # "idle" /\ ev'.op = "acquire")
        => /\ ev'.res = "ShuttingDown"
           /\ UNCHANGED <<pool, queue, pc, held>>]_vars

\* C15: at the step in which closeAll completes, every handle that is in the pool has had
\* browser.close() called on its engine, every entry that is in the queue is failed
\* (settled once, its caller gets no handle), and the pool and the queue are left empty.
C15_ShutdownClosesAndFailsAll ==
    [][(ev'.op = "closeAll" /\ ev'.res = "done")
        => /\ \A i \in 1..Len(pool) : closeCalls'[pool[i].id] >= 1
           /\ \A k \in 1..Len(queue) :
                 /\ pc'[queue[k].caller] = "idle"
                 /\ settled'[queue[k].caller] = 1
           /\ pool' = <<>>
           /\ queue' = <<>>]_vars

\* C16: browser.close() is called at most once on every handle's engine, and exactly once
\* on the engine of every handle that was created and is no longer in the pool.
C16_ClosedExactlyOnce ==
    \A id \in Ids :
        /\ closeCalls[id] <= 1
        /\ (id < nextId /\ ~InPool(id)) => closeCalls[id] = 1

\* C17: a step of a sweep or of closeAll that caught a teardown error goes on as after a
\* successful teardown: a sweep has removed the failing handle from the pool and either
\* starts the next close or performs its queue-expiry step; closeAll either starts the next
\* close or fails every queued entry and empties the pool and the queue.
C17_TeardownErrorIsContained ==
    [][ev'.err
        => IF ev'.op = "sweep"
           THEN /\ ev'.res \in {"closing", "done", "expired"}
                /\ \A s \in AllSweeps :
                      (sweep[s].phase = "closing" /\ sweep'[s] # sweep[s])
                          => FindIndex(pool', sweep[s].instance) = 0
           ELSE \/ ev'.res = "closing"
                \/ /\ ev'.res = "done"
                   /\ pool' = <<>> /\ queue' = <<>>
                   /\ \A k \in 1..Len(queue) :
                         pc'[queue[k].caller] = "idle" /\ settled'[queue[k].caller] = 1]_vars

\* C18: a second releaseBrowser(id) by a caller that has already released the handle changes
\* neither the queue, nor any entry's settlement, nor what any other caller holds, nor the
\* inUse flag of any handle.
C18_SecondReleaseIsNoOp ==
    [][(ev'.op = "release" /\ \E c \in Callers : pc[c] = "released" /\ pc'[c] = "idle")
        => /\ UNCHANGED <<queue, settled>>
           /\ \A d \in Callers :
                 pc[d] # "released" => (pc'[d] = pc[d] /\ held'[d] = held[d])
           /\ Len(pool') = Len(pool)
           /\ \A i \in 1..Len(pool) : pool'[i].inUse = pool[i].inUse]_vars

\* C19: releaseBrowser(id) with an id that no handle of the pool has returns normally and
\* changes no handle, no queue entry and no other caller.
C19_UnknownReleaseIsNoOp ==
    [][(ev'.op = "release" /\ \A i \in 1..Len(pool) : pool[i].id # ev'.h)
        => /\ ev'.res = "unknown"
           /\ UNCHANGED <<pool, queue, settled>>
           /\ \A c \in Callers :
                 pc[c] # "holding" => (pc'[c] = pc[c] /\ held'[c] = held[c])]_vars

C19_Witness ==
    /\ ev.op = "release" /\ ev.res = "unknown"
    /\ Len(pool) >= 1
    /\ Len(queue) >= 1

\* a downloadFile call that runs while no other call for the same target path is made
Alone(c) == \A d \in Transfers : d # c => transfer[d].stage = "none"

\* C20: downloadFile goes on making attempts until one succeeds or maxRetries of them have
\* failed: it raises ExhaustedRetries after exactly maxRetries failed attempts and not
\* before, and once an attempt has failed it returns the path only after the attempt that
\* succeeds, which is the one after its failures (k = retries + 1 <= maxRetries).
C20_RetriesUntilSuccessOrLimit ==
    \A c \in Transfers :
        LET t == transfer[c] IN
        /\ t.stage = "raised" => (t.retries = maxRetries /\ t.attempts = maxRetries)
        /\ t.stage # "raised" => t.retries < maxRetries
        /\ (t.stage = "returned" /\ t.retries > 0 /\ Alone(c))
              => (t.result = "written" /\ t.attempts = t.retries + 1)

\* the positions of downloadFile at which a pass of its loop is over
PassOver == {"top", "returned", "raised"}

\* C21: a pass of downloadFile that borrowed a handle releases that handle, in one release,
\* when the pass ends (before the next pass, the return or the throw), after which the call
\* holds nothing; a release is made only by a call that holds the handle it releases; and a
\* pass that goes on to fetch gets its handle from getBrowser while the call holds none.
C21_PassReleasesItsHandleOnce ==
    [][\A c \in Transfers :
          /\ (pc[c] = "holding" /\ transfer'[c].stage \in PassOver)
                => /\ ev'.op = "release" /\ ev'.h = held[c]
                   /\ pc'[c] = "idle" /\ held'[c] = NoId
          /\ transfer'[c].stage \in PassOver => (pc'[c] = "idle" /\ held'[c] = NoId)
          /\ (ev'.op = "release" /\ transfer'[c] # transfer[c])
                => (pc[c] = "holding" /\ ev'.h = held[c] /\ pc'[c] = "idle")
          /\ transfer'[c].attempts = transfer[c].attempts + 1
                => (pc[c] = "idle" /\ held[c] = NoId /\ ev'.op = "acquire")]_vars

C21_Witness ==
    \E c \in Transfers :
        /\ transfer[c].stage = "raised" /\ transfer[c].retries >= 2
        /\ ev.op = "release"
        /\ pc[c] = "idle"

\* C22: after a failed pass the handle is released before the retry delay is awaited: while
\* downloadFile waits for the delay it holds no handle.
C22_NoHandleDuringDelay ==
    \A c \in Transfers : transfer[c].stage = "delay" => (pc[c] = "idle" /\ held[c] = NoId)

\* C23: a pass that fails after the target file was partly written is followed by a new
\* fetch: a downloadFile call that runs alone returns the path only when the file at that
\* path is complete (it was complete before the call, or a fetch of the call completed it).
C23_ReturnsOnlyACompletedFile ==
    \A c \in Transfers :
        (transfer[c].stage = "returned" /\ Alone(c)) => file = "complete"

\* C24: when a file is at the target path as downloadFile is called, the call returns the
\* path in that same step, with no pass that borrows or fetches, and leaves the pool, the
\* queue and the file as they are; this is so for a call made after another call has
\* written the file.
C24_ExistingFileIsReturnedAtOnce ==
    [][\A c \in Transfers :
          (transfer[c].stage = "none" /\ transfer'[c].stage # "none" /\ file # "absent")
            => /\ transfer'[c] = [stage |-> "returned", retries |-> 0, attempts |-> 0,
                                  result |-> "exists"]
               /\ ev'.op = "transfer"
               /\ UNCHANGED <<pool, queue, pc, held, settled, file>>]_vars

C24_Witness ==
    \E c, d \in Transfers :
        /\ transfer[d].stage = "returned" /\ transfer[d].result = "written"
        /\ transfer[c].stage = "returned" /\ transfer[c].result = "exists"
        /\ transfer[c].attempts = 0
        /\ file = "complete"
        /\ ev.res = "exists"

\* C25: waitForVerification does not return true when the step that ends its wait sees the
\* marker it had detected still on the page and the URL still containing 'verify'; and
\* when the budget of the wait is used up with all markers on the page and the URL
\* unchanged, it ends as Failed.
C25_ResolvedOnlyWhenCleared ==
    [][\A c \in Resolvers :
          /\ (verif[c].stage = "verifying" /\ verif'[c].outcome = "Resolved")
                => ~(verif[c].captchaSelector \in seen'.present /\ seen'.onVerify)
          /\ (verif[c].stage = "verifying" /\ verif'[c] # verif[c]
                /\ verif[c].waited = VerifyBudget
                /\ seen'.present = Markers /\ seen'.onVerify)
                => verif'[c].outcome = "Failed"]_vars

\* C26: one call of waitForVerification makes at most two drags; the second is made only
\* by the step that follows the first and sees the container still on the page, and its
\* target offset is larger than that of the first; a step that sees the container gone
\* makes no drag; drags are made nowhere but in the solver.
C26_AtMostOneRetryWithLargerOffset ==
    [][\A c \in Resolvers :
          LET d == verif[c].drags
              e == verif'[c].drags
          IN /\ Len(e) <= 2
             /\ Len(e) > Len(d)
                   => (Len(e) = Len(d) + 1 /\ verif[c].stage \in {"solve", "check"})
             /\ (Len(d) = 1 /\ Len(e) = 2)
                   => /\ verif[c].stage = "check"
                      /\ ContainerMarker \in seen'.present
                      /\ e[1] = d[1]
                      /\ e[2] > e[1]
             /\ (verif[c].stage = "check" /\ verif'[c] # verif[c]
                   /\ ContainerMarker \notin seen'.present)
                   => (e = d /\ verif'[c].stage = "verifying")]_vars

C26_Witness ==
    \E c \in Resolvers :
        /\ Len(verif[c].drags) = 2
        /\ verif[c].stage = "verifying"
        /\ ContainerMarker \in seen.present
        /\ ev.res = "drag"

\* C27: waitForVerification ends as NotPresent only after every selector was probed without
\* a match and the page text held no keyword; it then returns false having written no
\* debug file, made no drag and started no wait for completion; and a probe whose
\* selector is on the page, or a keyword in the text, takes it to Detected.
C27_NotPresentIsClean ==
    [][\A c \in Resolvers :
          /\ (verif[c].outcome = "" /\ verif'[c].outcome = "NotPresent")
                => /\ verif[c].stage = "content" /\ verif[c].k = NumMarkers
                   /\ ~verif[c].captchaFound /\ ~verif'[c].captchaFound
                   /\ verif[c].drags = <<>> /\ verif'[c].drags = <<>>
                   /\ ~verif'[c].artifacts /\ ~verif'[c].raced
                   /\ verif'[c].ret = "false" /\ verif'[c].stage = "after"
          /\ (verif[c].stage = "probe" /\ verif'[c] # verif[c]
                /\ verif[c].k \in seen'.present)
                => (verif'[c].stage = "detected" /\ verif'[c].captchaFound)
          /\ (verif'[c] # verif[c] /\ ev'.res = "found")
                => (verif'[c].stage = "detected" /\ verif'[c].captchaFound)
          /\ (verif'[c].artifacts \/ verif'[c].raced \/ verif'[c].drags # <<>>)
                => verif'[c].captchaFound]_vars

C27_Witness ==
    \E c \in Resolvers :
        /\ verif[c].outcome = "NotPresent" /\ verif[c].stage = "after"
        /\ pc[c] = "holding"
        /\ ev.res = "false"

\* C28: when waitForVerification ends as Failed it returns a value to getVideoInfo, which
\* still holds its handle and goes on; no step of waitForVerification changes the pool, the
\* queue or any caller's hold; and getVideoInfo ends only with a release of its handle,
\* after which it holds nothing.
C28_FailedIsReturnedNotRaised ==
    [][\A c \in Resolvers :
          /\ (verif[c].outcome = "" /\ verif'[c].outcome = "Failed")
                => /\ verif'[c].ret = "false"
                   /\ verif'[c].stage = "after" /\ verif'[c].ended = ""
                   /\ pc'[c] = "holding" /\ held'[c] = held[c]
                   /\ FindIndex(pool', held[c]) # 0
          /\ ev'.op = "page"
                => UNCHANGED <<pool, queue, pc, held, settled, nextId, closeCalls>>
          /\ (verif[c].stage = "after" /\ verif'[c] # verif[c])
                => /\ verif'[c].stage = "done"
                   /\ ev'.op = "release" /\ ev'.h = held[c]
                   /\ ev'.res \in {"handoff", "idle"}
          /\ verif'[c].stage = "done" => (pc'[c] = "idle" /\ held'[c] = NoId)]_vars

C28_Witness ==
    \E c \in Resolvers :
        /\ verif[c].outcome = "Failed" /\ verif[c].stage = "done"
        /\ verif[c].captchaFound
        /\ ev.op = "release"
        /\ pc[c] = "idle"

\* C29: the value waitForVerification returns tells whether a challenge was found and
\* whether it was resolved: two calls that returned the same value agree on both.
C29_ResultTellsPresentAndResolved ==
    \A c, d \in Resolvers :
        (verif[c].ret # "" /\ verif[c].ret = verif[d].ret)
          => /\ verif[c].captchaFound = verif[d].captchaFound
             /\ (verif[c].outcome = "Resolved") = (verif[d].outcome = "Resolved")

\* C30: a handle that was released and not acquired again is retired by the first sweep
\* that finds now - lastUsed > browserTimeout: a sweep that starts selects every such
\* handle, and no step of a sweep takes out of the pool an idle handle that nobody holds
\* while the time since its release is within browserTimeout.
C30_IdleRetiredAtFirstSweepPastTimeout ==
    [][ev'.op = "sweep"
        => /\ \A i \in 1..Len(pool) :
                 (~pool[i].inUse /\ Holders(pool[i].id) = {}
                    /\ FindIndex(pool', pool[i].id) = 0)
                   => clock - pool[i].lastUsed > browserTimeout
           /\ \A s \in Sweeps :
                 (sweep[s].phase = "idle" /\ sweep'[s].phase = "closing")
                   => \A i \in 1..Len(pool) :
                         (~pool[i].inUse /\ clock - pool[i].lastUsed > browserTimeout)
                           => \E j \in 1..Len(sweep'[s].toRemove) :
                                 sweep'[s].toRemove[j] = i
           /\ \A s \in Sweeps :
                 (sweep[s].phase = "idle" /\ sweep'[s].phase = "idle")
                   => \A i \in 1..Len(pool) :
                         ~(~pool[i].inUse /\ clock - pool[i].lastUsed > browserTimeout)]_vars

\* C31: saveCookies returns normally however it ends (unknown id, cookies saved, or an
\* error of the read or of the write that is logged), its caller goes on holding what it
\* held, and no step of it changes the pool, a handle's inUse or lastUsed, or the queue.
C31_SaveCookiesSwallowsFailures ==
    [][ev'.op = "saveCookies"
        => /\ ev'.res \in {"unknown", "reading", "saved", "logged"}
           /\ UNCHANGED <<pool, queue, held, settled, nextId, closeCalls>>
           /\ \A c \in Callers :
                 \/ pc'[c] = pc[c]
                 \/ pc[c] = "holding" /\ pc'[c] = "saving" /\ ev'.res = "reading"
                 \/ pc[c] = "saving" /\ pc'[c] = "holding" /\ ev'.res \in {"saved", "logged"}
           /\ (ev'.res = "unknown") = (pc' = pc /\ FindIndex(pool, ev'.h) = 0)]_vars

C31_Witness ==
    /\ ev.op = "saveCookies" /\ ev.res = "logged"
    /\ \E c \in Callers : pc[c] = "holding" /\ held[c] = ev.h
    /\ Len(queue) >= 1

\* C32: a handle given to a caller, by the idle scan of getBrowser, by a new engine or by
\* the hand-off of releaseBrowser, is one whose engine no sweep and no shutdown has
\* started to close.
C32_GivenHandleHasLiveEngine ==
    [][\A c \in Callers :
          (pc[c] # "holding" /\ pc'[c] = "holding") => closeCalls'[held'[c]] = 0]_vars

\* C33: when a sweep resumes after the close of a handle, the entry it takes out of the
\* pool is that handle: the handle is no longer in the pool and no other handle has left
\* it.
C33_SweepRemovesWhatItClosed ==
    [][\A s \in Sweeps :
          (sweep[s].phase = "closing" /\ sweep'[s] # sweep[s])
            => /\ FindIndex(pool', sweep[s].instance) = 0
               /\ \A i \in 1..Len(pool) :
                     pool[i].id # sweep[s].instance => FindIndex(pool', pool[i].id) # 0]_vars

\* C34: as long as the sweep timer stays set, a caller that is suspended in the queue does
\* not stay there: it is given a handle, or its request is failed by a sweep or by the
\* shutdown.
C34_QueuedCallerSettles ==
    ([](shut.phase # "done"))
        => \A c \in Callers : (pc[c] = "queued") ~> (pc[c] # "queued")

C34_Witness ==
    /\ ev.op = "sweep" /\ ev.res = "expired"
    /\ \E c \in Callers : pc[c] = "idle" /\ settled[c] = 1
    /\ \E c \in Callers : pc[c] = "holding"

\* C35: a call of getVideoInfo that holds a handle keeps it until it ends, ends with one
\* release of that handle whether it returns or throws, and holds nothing afterwards; a call
\* whose getBrowser failed ends by throwing without any release; no release happens at any
\* other step.
C35_ReleasesOnceOnEveryExit ==
    [][/\ \A c \in Resolvers :
            LET exits == verif[c].stage # "done" /\ verif'[c].stage = "done" IN
            /\ (exits /\ pc[c] = "holding")
                  => /\ ev'.op = "release" /\ ev'.h = held[c]
                     /\ verif'[c].ended \in {"returned", "thrown"}
                     /\ pc'[c] = "idle" /\ held'[c] = NoId
            /\ (exits /\ pc[c] # "holding")
                  => /\ ev'.op # "release"
                     /\ verif'[c].ended = "thrown"
                     /\ pool' = pool
                     /\ pc'[c] = "idle" /\ held'[c] = NoId
            /\ (pc[c] = "holding" /\ ~exits)
                  => (pc'[c] = "holding" /\ held'[c] = held[c])
            /\ verif[c].stage = "done" => (pc'[c] = "idle" /\ held'[c] = NoId)
       /\ ev'.op = "release"
            => \E d \in Resolvers :
                  /\ verif[d].stage # "done" /\ verif'[d].stage = "done"
                  /\ pc[d] = "holding" /\ ev'.h = held[d]]_vars

C35_Witness ==
    \E c, d \in Resolvers :
        /\ verif[c].stage = "done" /\ verif[c].ended = "thrown" /\ verif[c].outcome = "Failed"
        /\ verif[d].stage = "done" /\ verif[d].ended = "thrown" /\ verif[d].outcome = ""
        /\ ev.op = "release" /\ pc[c] = "idle" /\ held[c] = NoId

\* C36: no downloadFile call returns the target path in a step taken while the stream of
\* another call to that path is still being written.
C36_NoReturnWhileAnotherWrites ==
    [][\A c, d \in Transfers :
          (c # d /\ transfer[c].stage # "returned" /\ transfer'[c].stage = "returned")
            => transfer[d].stage # "write"]_vars

=============================================================================
